---- MODULE Spec2Model ----
(***************************************************************************)
(* A model of the hybrid smart-contract analyzer:                          *)
(*   - static_analyzer.run_tool_in_docker, the sandboxed tool runner,      *)
(*     together with the Docker engine it drives (the environment);        *)
(*   - static_analyzer.parse_slither_output / parse_mythril_output, the    *)
(*     output normalizers, with the pydantic models they construct;        *)
(*   - llm_analyzer.run_analysis, the contextual analyzer, with the remote *)
(*     reasoning service as its environment;                               *)
(*   - main.static_analysis and main.llm_analysis, the request handlers,   *)
(*     with the temporary files of the former.                             *)
(*                                                                         *)
(* Text is modelled in two ways.  A string the code transforms character   *)
(* by character (str.capitalize, str.strip) is a sequence of one-character *)
(* strings.  A message the code only builds with an f-string is the        *)
(* sequence of the f-string's parts, the empty string being <<>>.          *)
(***************************************************************************)
EXTENDS Integers, Sequences, FiniteSets, TLC

VARIABLES
    dockerImages,   \* the images the Docker engine can provide
    rpc,            \* run_tool_in_docker: position of each invocation
    cstate,         \* Docker engine: state of the invocation's container
    cout,           \* Docker engine: what the container wrote to stdout so far
    cerr,           \* Docker engine: what the container wrote to stderr
    container,      \* run_tool_in_docker: is the local `container` bound
    logs,           \* run_tool_in_docker: the locals stdout and stderr
    exc,            \* run_tool_in_docker: the exception its handlers caught
    ret,            \* run_tool_in_docker: the (stdout, stderr) it returned
    call,           \* the last normalizer / contextual-analyzer call
    request,        \* main.py: the state of each request's handler
    files           \* the temporary files that exist

runnerVars == <<dockerImages, rpc, cstate, cout, cerr,
                container, logs, exc, ret>>
requestVars == <<request, files>>
vars == <<dockerImages, rpc, cstate, cout, cerr,
          container, logs, exc, ret, call, request, files>>

(***************************************************************************)
(* Bounds of the model.                                                    *)
(***************************************************************************)
NumInvocations == 2     \* concurrent invocations of run_tool_in_docker
MaxChunks == 2          \* chunks a container writes to stdout
MaxDetectors == 2       \* entries of a tool's detector / issue list
MaxFindings == 2        \* findings of a contextual-analyzer response
NumRequests == 2        \* concurrent requests to the service

Invocations == 1..NumInvocations
Requests == 1..NumRequests

(***************************************************************************)
(* Optional values: Python's None against a value that is set.             *)
(***************************************************************************)
None == [none |-> TRUE]
Some(v) == [some |-> v]

(***************************************************************************)
(* config.Settings: the sandbox images.                                    *)
(***************************************************************************)
SLITHER_DOCKER_IMAGE == "trailofbits/slither:latest"
MYTHRIL_DOCKER_IMAGE == "/mythril/myth:latest"
Images == {SLITHER_DOCKER_IMAGE, MYTHRIL_DOCKER_IMAGE}

\* The image_name argument of an invocation: the invocations run the two
\* tools in turn.
image_name(i) ==
    IF i % 2 = 1 THEN SLITHER_DOCKER_IMAGE ELSE MYTHRIL_DOCKER_IMAGE

(***************************************************************************)
(*                     run_tool_in_docker                                  *)
(***************************************************************************)

\* The exceptions the Docker SDK raises into the try block.  ContainerError
\* is raised by containers.run only when it is not detached, so the handler
\* of ContainerError is unreachable from the detached run of this code.
ImageNotFound == "ImageNotFound"
ReadTimeout == "ReadTimeout"
APIError == "APIError"
NoException == "none"

\* str(e) of the exceptions handled by `except Exception`.
StrOf(e) ==
    IF e = ReadTimeout THEN <<"Read timed out.">>
    ELSE <<"500 Server Error: Internal Server Error">>

\* The message of the ImageNotFound handler.
ImageNotFoundMsg(img) ==
    <<"Image Docker tidak ditemukan: ", img,
      ". Pastikan image sudah di-build atau di-pull.">>

\* What a sandboxed tool may write to its stderr: it is an untrusted process
\* and writes any text, the text of a runner message included.
ContainerStderr(i) == {<<>>, ImageNotFoundMsg(image_name(i))}

NoReturn == <<>>
Exists(i) == cstate[i] \in {"created", "running", "exited"}

RunnerInit ==
    /\ dockerImages \in SUBSET Images
    /\ rpc = [i \in Invocations |-> "run"]
    /\ cstate = [i \in Invocations |-> "none"]
    /\ cout = [i \in Invocations |-> <<>>]
    /\ cerr = [i \in Invocations |-> <<>>]
    /\ container = [i \in Invocations |-> FALSE]
    /\ logs = [i \in Invocations |-> <<>>]
    /\ exc = [i \in Invocations |-> NoException]
    /\ ret = [i \in Invocations |-> NoReturn]

\* except ImageNotFound: return "", error_msg
HandleImageNotFound(i, img) ==
    /\ exc' = [exc EXCEPT ![i] = ImageNotFound]
    /\ ret' = [ret EXCEPT ![i] = <<<<>>, ImageNotFoundMsg(img)>>]
    /\ rpc' = [rpc EXCEPT ![i] = "done"]

\* A handler that returns what the container had written so far.
HandleExceptionPartialOutput(i, e) ==
    /\ exc' = [exc EXCEPT ![i] = e]
    /\ cstate' = IF container[i] THEN [cstate EXCEPT ![i] = "removed"] ELSE cstate
    /\ ret' = [ret EXCEPT ![i] = <<cout[i], StrOf(e)>>]
    /\ rpc' = [rpc EXCEPT ![i] = "done"]

\* except Exception as e: remove the container if the local is bound, then
\* return "", str(e).  The engine honours a forced removal.
HandleException(i, e) ==
    /\ exc' = [exc EXCEPT ![i] = e]
    /\ cstate' = IF container[i] THEN [cstate EXCEPT ![i] = "removed"] ELSE cstate
    /\ ret' = [ret EXCEPT ![i] = <<<<>>, StrOf(e)>>]
    /\ rpc' = [rpc EXCEPT ![i] = "done"]

\* client.containers.run(image=..., detach=True), first half: the SDK creates
\* the container, pulling the image when it is not local.  The image may not
\* exist (ImageNotFound) or the request may fail (APIError); nothing is
\* created then.
CreateContainer(i) ==
    /\ rpc[i] = "run"
    /\ \/ /\ image_name(i) \notin dockerImages
          /\ HandleImageNotFound(i, image_name(i))
          /\ UNCHANGED cstate
       \/ /\ image_name(i) \in dockerImages
          /\ cstate' = [cstate EXCEPT ![i] = "created"]
          /\ rpc' = [rpc EXCEPT ![i] = "start"]
          /\ UNCHANGED <<exc, ret>>
       \/ /\ image_name(i) \in dockerImages
          /\ HandleException(i, APIError)
    /\ UNCHANGED <<dockerImages, cout, cerr, container, logs, call,
                   request, files>>

\* client.containers.run(image=..., detach=True), second half: the SDK starts
\* the created container and returns it, which binds the local `container`.
\* When the start request fails (APIError) the created container stays, and
\* the local is not bound.
StartContainer(i) ==
    /\ rpc[i] = "start"
    /\ \/ /\ cstate' = [cstate EXCEPT ![i] = "running"]
          /\ container' = [container EXCEPT ![i] = TRUE]
          /\ rpc' = [rpc EXCEPT ![i] = "wait"]
          /\ UNCHANGED <<exc, ret>>
       \/ /\ HandleException(i, APIError)
          /\ UNCHANGED container
    /\ UNCHANGED <<dockerImages, cout, cerr, logs, call,
                   request, files>>

\* The sandboxed tool writes to its stdout.
ContainerWrite(i) ==
    /\ cstate[i] = "running"
    /\ Len(cout[i]) < MaxChunks
    /\ cout' = [cout EXCEPT ![i] = Append(@, "chunk")]
    /\ UNCHANGED <<dockerImages, rpc, cstate, cerr,
                   container, logs, exc, ret, call,
                   request, files>>

\* The sandboxed tool exits, having written its stderr.  Its exit status is
\* not part of the state: the code reads result['StatusCode'] only to log a
\* warning, and returns the same on every status.
ContainerExit(i) ==
    /\ cstate[i] = "running"
    /\ \E err \in ContainerStderr(i) :
        cerr' = [cerr EXCEPT ![i] = err]
    /\ cstate' = [cstate EXCEPT ![i] = "exited"]
    /\ UNCHANGED <<dockerImages, rpc, cout, container, logs,
                   exc, ret, call,
                   request, files>>

\* result = container.wait(timeout=timeout), the container having exited.
WaitReturns(i) ==
    /\ rpc[i] = "wait"
    /\ cstate[i] = "exited"
    /\ rpc' = [rpc EXCEPT ![i] = "logs"]
    /\ UNCHANGED <<dockerImages, cstate, cout, cerr,
                   container, logs, exc, ret, call,
                   request, files>>

\* container.wait(timeout=timeout) raises: the container is still running
\* when the timeout elapses (ReadTimeout), or the request fails (APIError).
WaitRaises(i) ==
    /\ rpc[i] = "wait"
    /\ \/ /\ cstate[i] = "running"
          /\ HandleException(i, ReadTimeout)
       \/ HandleException(i, APIError)
    /\ UNCHANGED <<dockerImages, cout, cerr, container,
                   logs, call,
                   request, files>>

\* stdout = container.logs(stdout=True, ...); stderr = container.logs(...)
ReadLogs(i) ==
    /\ rpc[i] = "logs"
    /\ logs' = [logs EXCEPT ![i] = <<cout[i], cerr[i]>>]
    /\ rpc' = [rpc EXCEPT ![i] = "remove"]
    /\ UNCHANGED <<dockerImages, cstate, cout, cerr,
                   container, exc, ret, call,
                   request, files>>

\* Either call of container.logs raises.
LogsRaises(i) ==
    /\ rpc[i] = "logs"
    /\ HandleException(i, APIError)
    /\ UNCHANGED <<dockerImages, cout, cerr, container,
                   logs, call,
                   request, files>>

\* container.remove(force=True); the warning on a non-zero status;
\* return stdout, stderr
RemoveAndReturn(i) ==
    /\ rpc[i] = "remove"
    /\ cstate' = [cstate EXCEPT ![i] = "removed"]
    /\ ret' = [ret EXCEPT ![i] = logs[i]]
    /\ rpc' = [rpc EXCEPT ![i] = "done"]
    /\ UNCHANGED <<dockerImages, cout, cerr, container,
                   logs, exc, call,
                   request, files>>

RunnerNext ==
    \E i \in Invocations :
        \/ CreateContainer(i)
        \/ StartContainer(i)
        \/ ContainerWrite(i)
        \/ ContainerExit(i)
        \/ WaitReturns(i)
        \/ WaitRaises(i)
        \/ ReadLogs(i)
        \/ LogsRaises(i)
        \/ RemoveAndReturn(i)

(***************************************************************************)
(*                     Python values and text                              *)
(***************************************************************************)

\* The outcome of a call: the value it returns or the exception it raises.
Ok(v) == [ok |-> v]
Raise(e) == [raised |-> e]
IsOk(r) == "ok" \in DOMAIN r

\* dict.get(key, default)
Get(d, key, default) == IF key \in DOMAIN d THEN d[key] ELSE default

\* The empty dict.
EmptyDict == [k \in {} |-> k]

\* A JSON value that is a string, and JSON's null.
JStr(s) == [str |-> s]
JNull == [null |-> TRUE]
IsStr(v) == "str" \in DOMAIN v

LowerLetters ==
    <<"a", "b", "c", "d", "e", "f", "g", "h", "i", "j", "k", "l", "m",
      "n", "o", "p", "q", "r", "s", "t", "u", "v", "w", "x", "y", "z">>
UpperLetters ==
    <<"A", "B", "C", "D", "E", "F", "G", "H", "I", "J", "K", "L", "M",
      "N", "O", "P", "Q", "R", "S", "T", "U", "V", "W", "X", "Y", "Z">>
Whitespace == {" ", "\t", "\n", "\r"}

\* str.upper and str.lower of one character.
ToUpper(c) ==
    IF \E k \in 1..Len(LowerLetters) : LowerLetters[k] = c
    THEN UpperLetters[CHOOSE k \in 1..Len(LowerLetters) : LowerLetters[k] = c]
    ELSE c
ToLower(c) ==
    IF \E k \in 1..Len(UpperLetters) : UpperLetters[k] = c
    THEN LowerLetters[CHOOSE k \in 1..Len(UpperLetters) : UpperLetters[k] = c]
    ELSE c

\* str.capitalize(): the first character upper-cased, the rest lower-cased.
Capitalize(s) ==
    [k \in 1..Len(s) |-> IF k = 1 THEN ToUpper(s[k]) ELSE ToLower(s[k])]

\* str.lower()
Lower(s) == [k \in 1..Len(s) |-> ToLower(s[k])]

\* str.replace(" ", "-")
ReplaceSpaceByDash(s) == [k \in 1..Len(s) |-> IF s[k] = " " THEN "-" ELSE s[k]]

RECURSIVE LStrip(_)
LStrip(s) ==
    IF s # <<>> /\ Head(s) \in Whitespace THEN LStrip(Tail(s)) ELSE s

RECURSIVE RStrip(_)
RStrip(s) ==
    IF s # <<>> /\ s[Len(s)] \in Whitespace
    THEN RStrip(SubSeq(s, 1, Len(s) - 1))
    ELSE s

\* str.strip()
Strip(s) == RStrip(LStrip(s))

\* Texts the tools emit, as character sequences.
W_HIGH ==
    <<"H", "i", "g", "h">>
W_MEDIUM ==
    <<"M", "e", "d", "i", "u", "m">>
W_LOW ==
    <<"L", "o", "w">>
W_INFORMATIONAL ==
    <<"I", "n", "f", "o", "r", "m", "a", "t", "i", "o", "n", "a", "l">>
W_OPTIMIZATION ==
    <<"O", "p", "t", "i", "m", "i", "z", "a", "t", "i", "o", "n">>
W_CRITICAL ==
    <<"C", "r", "i", "t", "i", "c", "a", "l">>
W_informational ==
    <<"i", "n", "f", "o", "r", "m", "a", "t", "i", "o", "n", "a", "l">>
W_SEVERE ==
    <<"S", "e", "v", "e", "r", "e">>
W_UNKNOWN ==
    <<"U", "n", "k", "n", "o", "w", "n">>
CHK_REENTRANCY ==
    <<"r", "e", "e", "n", "t", "r", "a", "n", "c", "y", "-", "e", "t", "h">>
CHK_CONSTABLE ==
    <<"c", "o", "n", "s", "t", "a", "b", "l", "e", "-", "s", "t", "a", "t",
      "e", "s">>
CHK_TIMESTAMP ==
    <<"t", "i", "m", "e", "s", "t", "a", "m", "p">>
CHK_NA ==
    <<"N", "/", "A">>
DESC_PLAIN ==
    <<"E", "x", "t", "e", "r", "n", "a", "l", " ", "c", "a", "l", "l", " ",
      "b", "e", "f", "o", "r", "e", " ", "s", "t", "a", "t", "e", " ", "u",
      "p", "d", "a", "t", "e">>
DESC_NEWLINE ==
    <<"o", "w", "n", "e", "r", " ", "s", "h", "o", "u", "l", "d", " ", "b",
      "e", " ", "c", "o", "n", "s", "t", "a", "n", "t", "\n">>
DESC_INDENTED ==
    <<"\t", "f", "(", ")", " ", "u", "s", "e", "s", " ", "t", "i", "m",
      "e", "s", "t", "a", "m", "p", "\n">>
SWC_107 ==
    <<"1", "0", "7">>
TITLE_EXTERNAL_CALL ==
    <<"E", "x", "t", "e", "r", "n", "a", "l", " ", "C", "a", "l", "l">>
TITLE_DEFAULT ==
    <<"M", "y", "t", "h", "r", "i", "l", " ", "I", "s", "s", "u", "e">>

(***************************************************************************)
(*                     models.py: the pydantic models                      *)
(***************************************************************************)

\* StaticIssue(check=..., severity=..., line=..., message=...): the four
\* fields are required; check, severity and message are strings, line an int.
StaticIssue(check, severity, line, message) ==
    [check |-> check, severity |-> severity, line |-> line, message |-> message]

\* StaticAnalysisOutput(**kwargs): tool_name and issues are required
\* (Field(...)), error defaults to None.  A missing required field raises
\* pydantic's ValidationError.
StaticAnalysisOutput(kwargs) ==
    IF {"tool_name", "issues"} \subseteq DOMAIN kwargs
    THEN Ok([tool_name |-> kwargs.tool_name,
             issues |-> kwargs.issues,
             error |-> Get(kwargs, "error", None)])
    ELSE Raise("ValidationError")

(***************************************************************************)
(*                     json.loads                                          *)
(*                                                                         *)
(* A text handed to json.loads is [json |-> FALSE, ...] when it is not     *)
(* JSON (json.loads raises JSONDecodeError; the empty string is such a     *)
(* text), and [json |-> TRUE, value |-> v] when it is the JSON text of v.  *)
(* A JSON object is a function from its keys.                              *)
(***************************************************************************)
NotJson(text) == [json |-> FALSE, text |-> text]
JsonText(v) == [json |-> TRUE, value |-> v]
json_loads(text) ==
    IF text.json THEN Ok(text.value) ELSE Raise("JSONDecodeError")

(***************************************************************************)
(*                     The output normalizers                              *)
(***************************************************************************)
ParseFailureMsg(stderr) == <<"Gagal mem-parsing output JSON. STDERR: ", stderr>>

\* The first results of a sequence of outcomes: the values when every
\* outcome is a value, the first exception otherwise (a list comprehension).
AllOk(rs) == \A k \in 1..Len(rs) : IsOk(rs[k])
Collect(rs) ==
    IF AllOk(rs)
    THEN Ok([k \in 1..Len(rs) |-> rs[k].ok])
    ELSE Raise(rs[CHOOSE k \in 1..Len(rs) :
                    ~IsOk(rs[k]) /\ \A j \in 1..(k - 1) : IsOk(rs[j])].raised)

\* A location taken from the last line of the last affected element.
SlitherLineOfLastElement(d) ==
    LET elements == Get(d, "elements", <<EmptyDict>>) IN
    IF elements = <<>> THEN Raise("IndexError")
    ELSE LET lines == Get(Get(elements[Len(elements)], "source_mapping",
                              EmptyDict), "lines", <<-1>>) IN
         IF lines = <<>> THEN Raise("IndexError") ELSE Ok(lines[Len(lines)])

\* d.get("elements", [{}])[0].get("source_mapping", {}).get("lines", [-1])[0]
SlitherLine(d) ==
    LET elements == Get(d, "elements", <<EmptyDict>>) IN
    IF elements = <<>> THEN Raise("IndexError")
    ELSE LET lines == Get(Get(elements[1], "source_mapping", EmptyDict),
                          "lines", <<-1>>) IN
         IF lines = <<>> THEN Raise("IndexError") ELSE Ok(lines[1])

\* One StaticIssue of the comprehension of parse_slither_output.
SlitherIssue(d) ==
    LET impact == Get(d, "impact", JStr(W_UNKNOWN))
        line == SlitherLine(d)
    IN  IF ~IsStr(impact) THEN Raise("AttributeError")
        ELSE IF ~IsOk(line) THEN line
        ELSE Ok(StaticIssue(Get(d, "check", CHK_NA),
                            Capitalize(impact.str),
                            line.ok,
                            Strip(Get(d, "description", <<>>))))

\* parse_slither_output(stdout, stderr).  Only JSONDecodeError is caught; an
\* exception raised by a handler or by the rest of the body leaves the
\* function.
parse_slither_output(stdout, stderr) ==
    LET loaded == json_loads(stdout) IN
    IF ~IsOk(loaded)
    THEN StaticAnalysisOutput([tool_name |-> "Slither",
                               error |-> Some(ParseFailureMsg(stderr))])
    ELSE LET data == loaded.ok IN
         IF ~Get(data, "success", FALSE)
         THEN StaticAnalysisOutput(
                [tool_name |-> "Slither",
                 error |-> Some(<<Get(data, "error", "Unknown Slither error"),
                                  ". STDERR: ", stderr>>)])
         ELSE LET detectors == Get(Get(data, "results", EmptyDict), "detectors", <<>>)
                  issues == Collect([k \in 1..Len(detectors) |->
                                        SlitherIssue(detectors[k])])
              IN  IF ~IsOk(issues) THEN issues
                  ELSE StaticAnalysisOutput([tool_name |-> "Slither",
                                             issues |-> issues.ok])

\* i.get("swc-id", i.get("title", "Mythril Issue").replace(" ", "-").lower())
MythrilCheck(i) ==
    Get(i, "swc-id",
        Lower(ReplaceSpaceByDash(
            Get(i, "title", TITLE_DEFAULT))))

\* One StaticIssue of the comprehension of parse_mythril_output.
MythrilIssue(i) ==
    LET severity == Get(i, "severity", JStr(W_UNKNOWN))
    IN  IF ~IsStr(severity) THEN Raise("AttributeError")
        ELSE Ok(StaticIssue(MythrilCheck(i),
                            Capitalize(severity.str),
                            Get(i, "lineno", -1),
                            Strip(Get(i, "description", <<>>))))

\* parse_mythril_output(stdout, stderr)
parse_mythril_output(stdout, stderr) ==
    LET loaded == json_loads(stdout) IN
    IF ~IsOk(loaded)
    THEN StaticAnalysisOutput([tool_name |-> "Mythril",
                               error |-> Some(ParseFailureMsg(stderr))])
    ELSE LET data == loaded.ok IN
         IF ~Get(data, "success", FALSE)
         THEN StaticAnalysisOutput(
                [tool_name |-> "Mythril",
                 error |-> Some(<<"Mythril melaporkan kegagalan. STDERR: ",
                                  stderr>>)])
         ELSE LET found == Get(data, "issues", <<>>)
                  issues == Collect([k \in 1..Len(found) |->
                                        MythrilIssue(found[k])])
              IN  IF ~IsOk(issues) THEN issues
                  ELSE StaticAnalysisOutput([tool_name |-> "Mythril",
                                             issues |-> issues.ok])

(***************************************************************************)
(*                     Tool outputs the normalizers are given              *)
(***************************************************************************)
Stderrs == {"", "solc: compilation failed"}

\* An affected element of a Slither detector entry, with its lines.
Element(lines) == [source_mapping |-> [lines |-> lines]]

\* Slither's "impact" vocabulary (DetectorClassification), as its JSON output
\* writes it, and the five canonical severities.
SlitherImpacts ==
    {W_HIGH, W_MEDIUM, W_LOW, W_INFORMATIONAL, W_OPTIMIZATION}
MythrilSeverities == {W_HIGH, W_MEDIUM, W_LOW}
CanonicalSeverities ==
    {W_INFORMATIONAL, W_LOW, W_MEDIUM, W_HIGH, W_CRITICAL}

\* Detector entries of a Slither output.
SlitherDetectors ==
    { [check |-> CHK_REENTRANCY, impact |-> JStr(W_HIGH),
       elements |-> <<Element(<<42>>)>>, description |-> DESC_PLAIN],
      [check |-> CHK_CONSTABLE, impact |-> JStr(W_OPTIMIZATION),
       elements |-> <<Element(<<7, 8>>), Element(<<12>>)>>,
       description |-> DESC_NEWLINE],
      [check |-> CHK_TIMESTAMP, impact |-> JStr(W_MEDIUM),
       elements |-> <<Element(<<3, 4, 5>>)>>, description |-> DESC_INDENTED],
      [check |-> CHK_TIMESTAMP, impact |-> JStr(W_LOW),
       elements |-> <<Element(<<9>>), Element(<<2>>)>>,
       description |-> DESC_PLAIN],
      [check |-> CHK_CONSTABLE, impact |-> JStr(W_informational),
       elements |-> <<Element(<<1>>)>>, description |-> DESC_NEWLINE],
      [check |-> CHK_REENTRANCY, impact |-> JStr(W_HIGH),
       description |-> DESC_PLAIN],
      [check |-> CHK_REENTRANCY, impact |-> JStr(W_HIGH),
       elements |-> <<>>, description |-> DESC_PLAIN],
      [check |-> CHK_REENTRANCY, impact |-> JStr(W_HIGH),
       elements |-> <<[name |-> "f"]>>, description |-> DESC_PLAIN],
      [check |-> CHK_REENTRANCY, impact |-> JStr(W_HIGH),
       elements |-> <<[source_mapping |-> [lines |-> <<>>]]>>,
       description |-> DESC_PLAIN],
      [check |-> CHK_TIMESTAMP, elements |-> <<Element(<<5>>)>>,
       description |-> DESC_PLAIN],
      [check |-> CHK_TIMESTAMP, impact |-> JNull,
       elements |-> <<Element(<<5>>)>>, description |-> DESC_PLAIN],
      [check |-> CHK_TIMESTAMP, impact |-> JStr(W_SEVERE),
       elements |-> <<Element(<<5>>)>>, description |-> DESC_PLAIN],
      [impact |-> JStr(W_LOW), elements |-> <<Element(<<6>>)>>] }

\* The sequences over S of length at most n.
SeqUpTo(S, n) == UNION {[1..m -> S] : m \in 0..n}

\* What json.loads gives for a Slither output: the success flag false or
\* absent, with and without the tool's error text, or true with a detector
\* list.
SlitherData ==
    { [success |-> FALSE, error |-> "Traceback: InvalidCompilation"],
      [success |-> FALSE],
      [error |-> "Traceback: InvalidCompilation"],
      EmptyDict,
      [success |-> TRUE],
      [success |-> TRUE, results |-> EmptyDict] }
    \cup { [success |-> TRUE, results |-> [detectors |-> ds]] :
             ds \in SeqUpTo(SlitherDetectors, MaxDetectors) }

SlitherStdouts ==
    {NotJson(""), NotJson("Traceback (most recent call last)")}
        \cup {JsonText(d) : d \in SlitherData}

\* Issues of a Mythril output.
MythrilIssues ==
    { ("swc-id" :> SWC_107) @@
        [title |-> TITLE_EXTERNAL_CALL, severity |-> JStr(W_MEDIUM),
         lineno |-> 17, description |-> DESC_NEWLINE],
      [title |-> TITLE_EXTERNAL_CALL, severity |-> JStr(W_HIGH),
       lineno |-> 3, description |-> DESC_PLAIN],
      [title |-> TITLE_EXTERNAL_CALL, severity |-> JStr(W_LOW),
       description |-> DESC_PLAIN],
      ("swc-id" :> SWC_107) @@ [lineno |-> 8],
      ("swc-id" :> SWC_107) @@ [severity |-> JNull, lineno |-> 8],
      ("swc-id" :> SWC_107) @@ [severity |-> JStr(W_SEVERE), lineno |-> 8] }

MythrilData ==
    { [success |-> FALSE, error |-> "Solc experienced a fatal error"],
      [success |-> FALSE],
      [error |-> "Solc experienced a fatal error"],
      EmptyDict,
      [success |-> TRUE] }
    \cup { [success |-> TRUE, error |-> JNull, issues |-> is] :
             is \in SeqUpTo(MythrilIssues, MaxDetectors) }

MythrilStdouts ==
    {NotJson(""), NotJson("mythril.exceptions.CompilerError")}
        \cup {JsonText(d) : d \in MythrilData}

(***************************************************************************)
(*                     llm_analyzer.py                                     *)
(***************************************************************************)

\* LLMIssue.confidence: Field(..., ge=0.0, le=1.0).  A confidence is counted
\* in tenths: 0 is 0.0, 10 is 1.0, 15 is 1.5.
CONFIDENCE_GE == 0
CONFIDENCE_LE == 10

\* An LLMIssue without the range of its confidence (models.LLMIssue).
LLMIssueUnconstrained(f) ==
    IF /\ {"severity", "category", "description", "confidence"}
            \subseteq DOMAIN f
       /\ IsStr(f.severity) /\ IsStr(f.category) /\ IsStr(f.description)
    THEN Ok([severity |-> f.severity.str, category |-> f.category.str,
             description |-> f.description.str, confidence |-> f.confidence])
    ELSE Raise("ValidationError")

\* LLMIssue(**f): severity, category, description and confidence are
\* required; confidence must lie in [0.0, 1.0].
LLMIssue(f) ==
    IF /\ {"severity", "category", "description", "confidence"}
            \subseteq DOMAIN f
       /\ IsStr(f.severity) /\ IsStr(f.category) /\ IsStr(f.description)
       /\ f.confidence >= CONFIDENCE_GE
       /\ f.confidence <= CONFIDENCE_LE
    THEN Ok([severity |-> f.severity.str, category |-> f.category.str,
             description |-> f.description.str, confidence |-> f.confidence])
    ELSE Raise("ValidationError")

\* LLMAnalysisResult(**kwargs): executive_summary, overall_risk_grading and
\* findings are required, every finding is validated as an LLMIssue, error is
\* an optional string that defaults to None; other keys are ignored.
LLMAnalysisResult(kwargs) ==
    IF {"executive_summary", "overall_risk_grading", "findings"}
            \subseteq DOMAIN kwargs
    THEN LET findings == Collect([k \in 1..Len(kwargs.findings) |->
                                    LLMIssue(kwargs.findings[k])])
             error == Get(kwargs, "error", JNull)
         IN  IF /\ IsStr(kwargs.executive_summary)
                /\ IsStr(kwargs.overall_risk_grading)
                /\ IsOk(findings)
             THEN Ok([executive_summary |-> kwargs.executive_summary.str,
                      overall_risk_grading |-> kwargs.overall_risk_grading.str,
                      findings |-> findings.ok,
                      error |-> IF IsStr(error) THEN Some(error.str) ELSE None])
             ELSE Raise("ValidationError")
    ELSE Raise("ValidationError")

\* The try block of run_analysis, up to the exception it raises: the POST
\* (a timeout, a connection failure), raise_for_status, response.json(), the
\* check of candidates and content, the report text and its json.loads, and
\* the validation of the report.
AnalysisAttempt(response) ==
    IF "net" \in DOMAIN response THEN Raise(response.net)
    ELSE IF response.status >= 400 THEN Raise("HTTPError")
    ELSE LET body == json_loads(response.body) IN
    IF ~IsOk(body) THEN body
    ELSE LET response_json == body.ok
             candidates == Get(response_json, "candidates", <<>>)
         IN
    IF candidates = <<>> \/ Get(candidates[1], "content", EmptyDict) = EmptyDict
    THEN Raise("KeyError")
    ELSE LET content == candidates[1].content IN
    IF "parts" \notin DOMAIN content THEN Raise("KeyError")
    ELSE IF content.parts = <<>> THEN Raise("IndexError")
    ELSE IF "text" \notin DOMAIN content.parts[1] THEN Raise("KeyError")
    ELSE LET report_data == json_loads(content.parts[1].text) IN
    IF ~IsOk(report_data) THEN report_data
    ELSE LLMAnalysisResult(report_data.ok)

\* A run_analysis whose handler catches only the failures of the request.
run_analysis_catching_requests_only(api_key, response) ==
    LET attempt == AnalysisAttempt(response) IN
    IF IsOk(attempt) \/ attempt.raised \notin {"Timeout", "ConnectionError", "HTTPError"}
    THEN attempt
    ELSE LLMAnalysisResult(
            [executive_summary |-> JStr(""),
             overall_risk_grading |-> JStr("Error"),
             findings |-> <<>>,
             error |-> JStr(<<"Terjadi error saat analisis LLM: ",
                              attempt.raised>>)])

\* run_analysis(full_input_json): without GEMINI_API_KEY it returns an error
\* report at once; otherwise whatever the try block raises is caught by
\* `except Exception` and turned into an error report.
run_analysis(api_key, response) ==
    IF ~api_key
    THEN LLMAnalysisResult(
            [executive_summary |-> JStr(""),
             overall_risk_grading |-> JStr("Unknown"),
             findings |-> <<>>,
             error |-> JStr(<<"Server error: GEMINI_API_KEY tidak dikonfigurasi.">>)])
    ELSE LET attempt == AnalysisAttempt(response) IN
         IF IsOk(attempt) THEN attempt
         ELSE LLMAnalysisResult(
                [executive_summary |-> JStr(""),
                 overall_risk_grading |-> JStr("Error"),
                 findings |-> <<>>,
                 error |-> JStr(<<"Terjadi error saat analisis LLM: ",
                                  attempt.raised>>)])

(***************************************************************************)
(*                     Responses of the remote reasoning service           *)
(***************************************************************************)
Finding(confidence) ==
    [severity |-> JStr("Tinggi"), category |-> JStr("Logic Flaw"),
     description |-> JStr("mint() is unbounded"), confidence |-> confidence]

\* Findings of a report: confidences inside and outside [0.0, 1.0], and a
\* finding without confidence.
LLMFindings ==
    {Finding(c) : c \in {-1, 0, 5, 10, 15}}
        \cup {[severity |-> JStr("Rendah"), category |-> JStr("Best Practice"),
               description |-> JStr("no events")]}

ReportHeads ==
    { [executive_summary |-> JStr("The contract is centralized."),
       overall_risk_grading |-> JStr("Tinggi")],
      [overall_risk_grading |-> JStr("Tinggi")],
      [executive_summary |-> JNull, overall_risk_grading |-> JStr("Tinggi")] }

ReportErrors ==
    { EmptyDict, [error |-> JNull],
      [error |-> JStr(<<"analysis truncated">>)] }

\* The JSON objects the report text may hold.
ReportData ==
    { h @@ e : h \in ReportHeads, e \in ReportErrors }
        \cup { h @@ e @@ [findings |-> fs] :
                 h \in ReportHeads, e \in ReportErrors,
                 fs \in SeqUpTo(LLMFindings, MaxFindings) }

Candidate(text) == [content |-> [parts |-> <<[text |-> text]>>]]

\* The JSON objects the response body may hold.
ResponseJson ==
    { EmptyDict,
      [candidates |-> <<>>],
      [candidates |-> <<[finishReason |-> "SAFETY"]>>],
      [candidates |-> <<[content |-> EmptyDict]>>],
      [candidates |-> <<[content |-> [role |-> "model"]]>>],
      [candidates |-> <<[content |-> [parts |-> <<>>]]>>],
      [candidates |-> <<[content |-> [parts |-> <<[inlineData |-> "x"]>>]]>>],
      [candidates |-> <<Candidate(NotJson("Here is the report:"))>>] }
    \cup { [candidates |-> <<Candidate(JsonText(r))>>] : r \in ReportData }

\* The outcomes of requests.post: it raises, or a response arrives.
Responses ==
    { [net |-> "Timeout"], [net |-> "ConnectionError"],
      [status |-> 500, body |-> NotJson("Internal error")],
      [status |-> 429, body |-> JsonText(EmptyDict)],
      [status |-> 200, body |-> NotJson("<html>")] }
    \cup { [status |-> 200, body |-> JsonText(j)] : j \in ResponseJson }

(***************************************************************************)
(*                     Calls of the analyzers                              *)
(***************************************************************************)
Pending == [pending |-> TRUE]

\* The calls a behaviour may start with: the function and its inputs.
PendingCalls ==
    { [fn |-> "parse_slither_output", stdout |-> stdout, stderr |-> stderr,
       out |-> Pending] : stdout \in SlitherStdouts, stderr \in Stderrs }
    \cup
    { [fn |-> "parse_mythril_output", stdout |-> stdout, stderr |-> stderr,
       out |-> Pending] : stdout \in MythrilStdouts, stderr \in Stderrs }
    \cup
    { [fn |-> "run_analysis", api_key |-> TRUE, response |-> response,
       out |-> Pending] : response \in Responses }
    \cup
    { [fn |-> "run_analysis", api_key |-> FALSE, response |-> response,
       out |-> Pending] : response \in {[net |-> "Timeout"]} }

\* A call of parse_slither_output.
CallParseSlither ==
    /\ call.fn = "parse_slither_output"
    /\ call.out = Pending
    /\ call' = [call EXCEPT
                    !.out = parse_slither_output(call.stdout, call.stderr)]
    /\ UNCHANGED <<runnerVars, requestVars>>

\* A call of parse_mythril_output.
CallParseMythril ==
    /\ call.fn = "parse_mythril_output"
    /\ call.out = Pending
    /\ call' = [call EXCEPT
                    !.out = parse_mythril_output(call.stdout, call.stderr)]
    /\ UNCHANGED <<runnerVars, requestVars>>

\* A call of llm_analyzer.run_analysis.
CallRunAnalysis ==
    /\ call.fn = "run_analysis"
    /\ call.out = Pending
    /\ call' = [call EXCEPT !.out = run_analysis(call.api_key, call.response)]
    /\ UNCHANGED <<runnerVars, requestVars>>

NoCall == [fn |-> "none"]

AnalyzerNext ==
    \/ CallParseSlither
    \/ CallParseMythril
    \/ CallRunAnalysis

(***************************************************************************)
(*                     main.py: the request handlers                       *)
(***************************************************************************)

\* Exceptions that leave a handler: an HTTPException with its status code,
\* or another exception, by the name of its type.
HTTPException(status_code) ==
    [type |-> "HTTPException", status_code |-> status_code]
Exception(type) == [type |-> type]

\* A slot without a request, and the requests a behaviour may start with:
\* the handler and the arguments the framework passes it.
Idle == [handler |-> "none", pc |-> "idle"]

StaticRequests ==
    { [handler |-> "static_analysis",
       token_address |-> token_address, source_file |-> source_file,
       pc |-> "validate", source_code |-> None,
       tmp_file |-> None, tmp_file_path |-> None,
       result |-> Pending, response |-> Pending] :
        token_address \in BOOLEAN, source_file \in BOOLEAN }

\* Bodies of a request to /llm-analysis: the one the handler accepts, and
\* bodies without contract_metadata or without its token_address.
AcceptedInputJson ==
    [contract_metadata |-> [token_address |-> "0xdAC17F958D2ee523a2206206994597C13D831ec7"]]
FullInputJsons ==
    {EmptyDict, [contract_metadata |-> EmptyDict], AcceptedInputJson}

\* What the remote reasoning service answers a request: a report with a
\* finding, a report without findings, or no answer within the timeout.
RequestRemotes ==
    { [status |-> 200,
       body |-> JsonText([candidates |-> <<Candidate(JsonText(
            [executive_summary |-> JStr("The contract is centralized."),
             overall_risk_grading |-> JStr("Tinggi"),
             findings |-> fs]))>>])] : fs \in {<<>>, <<Finding(5)>>} }
        \cup {[net |-> "Timeout"]}

LlmRequests ==
    { [handler |-> "llm_analysis", full_input_json |-> full_input_json,
       api_key |-> TRUE, remote |-> remote,
       pc |-> "validate", response |-> Pending] :
        full_input_json \in FullInputJsons, remote \in RequestRemotes }
    \cup
    { [handler |-> "llm_analysis", full_input_json |-> full_input_json,
       api_key |-> FALSE, remote |-> [net |-> "Timeout"],
       pc |-> "validate", response |-> Pending] :
        full_input_json \in FullInputJsons }

\* The outcomes of requests.get(api_url, timeout=20) on Etherscan: it raises
\* a RequestException, or the JSON of the reply: status "0", status "1"
\* without source, status "1" with a source the UTF-8 codec can encode, and
\* with a source that holds a lone surrogate (the JSON escape \ud800).
EtherscanReplies ==
    { [net |-> "ConnectionError"],
      [status |-> "0", SourceCode |-> ""],
      [status |-> "1", SourceCode |-> ""],
      [status |-> "1", SourceCode |-> "contract Token {}"],
      [status |-> "1", SourceCode |-> "contract Token { /* \\ud800 */ }"] }

Encodable(source_code) == source_code # "contract Token { /* \\ud800 */ }"

\* fetch_source_code_from_etherscan(address): without ETHERSCAN_API_KEY 500;
\* a RequestException 503; a reply without source 404; otherwise the source.
fetch_source_code_from_etherscan(api_key, reply) ==
    IF ~api_key THEN Raise(HTTPException(500))
    ELSE IF "net" \in DOMAIN reply THEN Raise(HTTPException(503))
    ELSE IF reply.status = "1" /\ reply.SourceCode # ""
         THEN Ok(reply.SourceCode)
         ELSE Raise(HTTPException(404))

\* What the two tool runs of one static analysis return, as (stdout, stderr)
\* pairs of run_tool_in_docker: the empty stdout of a failed invocation, or
\* the tool's JSON.
ToolRuns ==
    { [slither |-> <<so, se>>, mythril |-> <<mo, me>>] :
        so \in {NotJson(""),
                JsonText([success |-> TRUE, results |-> [detectors |->
                    <<[check |-> CHK_REENTRANCY, impact |-> JStr(W_HIGH),
                       elements |-> <<Element(<<42>>)>>,
                       description |-> DESC_PLAIN]>>]])},
        se \in {""},
        mo \in {NotJson(""),
                JsonText([success |-> TRUE, error |-> JNull, issues |->
                    <<[title |-> TITLE_EXTERNAL_CALL,
                       severity |-> JStr(W_HIGH), lineno |-> 3,
                       description |-> DESC_PLAIN]>>])},
        me \in {""} }

\* static_analyzer.run_analysis(tmp_file_path, solidity_version): the output
\* of each tool run is normalized by the tool's normalizer and the reports
\* are returned in the order Slither, Mythril; what a normalizer raises is
\* not handled.
static_analyzer_run_analysis(runs) ==
    LET slither == parse_slither_output(runs.slither[1], runs.slither[2])
        mythril == parse_mythril_output(runs.mythril[1], runs.mythril[2])
    IN  IF ~IsOk(slither) THEN slither
        ELSE IF ~IsOk(mythril) THEN mythril
        ELSE Ok(<<slither.ok, mythril.ok>>)

\* static_analysis, lines 126-129: neither or both of token_address and
\* source_file is answered 400.
static_analysis_validate(r) ==
    /\ request[r].handler = "static_analysis"
    /\ request[r].pc = "validate"
    /\ request' = [request EXCEPT ![r] =
            IF request[r].token_address = request[r].source_file
            THEN [@ EXCEPT !.pc = "done",
                           !.response = Raise(HTTPException(400))]
            ELSE [@ EXCEPT !.pc = "source"]]
    /\ UNCHANGED <<runnerVars, call, files>>

\* static_analysis, lines 131-140: source_file is a str, which has no
\* attribute filename; the source of a token_address is fetched from
\* Etherscan.
static_analysis_source(r) ==
    /\ request[r].handler = "static_analysis"
    /\ request[r].pc = "source"
    /\ \E api_key \in BOOLEAN, reply \in EtherscanReplies :
        LET source_code == fetch_source_code_from_etherscan(api_key, reply) IN
        request' = [request EXCEPT ![r] =
            IF request[r].source_file
            THEN [@ EXCEPT !.pc = "done",
                           !.response = Raise(Exception("AttributeError"))]
            ELSE IF IsOk(source_code)
            THEN [@ EXCEPT !.pc = "create",
                           !.source_code = Some(source_code.ok)]
            ELSE [@ EXCEPT !.pc = "done", !.response = source_code]]
    /\ UNCHANGED <<runnerVars, call, files>>

\* The names of temporary files; NamedTemporaryFile draws one that no file
\* has and, the names being random, that no request was given before.
TmpNames == 1..NumRequests
UsedNames ==
    {n \in TmpNames : \E q \in Requests :
        /\ request[q].handler = "static_analysis"
        /\ request[q].tmp_file = Some(n)}

\* static_analysis, line 145: NamedTemporaryFile(delete=False) creates the
\* file.
static_analysis_create(r) ==
    /\ request[r].handler = "static_analysis"
    /\ request[r].pc = "create"
    /\ \E name \in TmpNames \ (files \cup UsedNames) :
        /\ files' = files \cup {name}
        /\ request' = [request EXCEPT ![r] =
                [@ EXCEPT !.pc = "write", !.tmp_file = Some(name)]]
    /\ UNCHANGED <<runnerVars, call>>

\* What tmp_file.write(source_code) raises: UnicodeEncodeError for a source
\* the codec cannot encode; otherwise nothing, or the OSError of a full disk.
WriteErrors(source_code) ==
    IF Encodable(source_code) THEN {"none", "OSError"}
    ELSE {"UnicodeEncodeError"}

\* static_analysis, lines 146-147: the source is written and, after that,
\* tmp_file_path is bound; the with block closes the file and keeps it.
static_analysis_write(r) ==
    /\ request[r].handler = "static_analysis"
    /\ request[r].pc = "write"
    /\ \E error \in WriteErrors(request[r].source_code.some) :
        request' = [request EXCEPT ![r] =
            IF error = "none"
            THEN [@ EXCEPT !.pc = "analysis", !.tmp_file_path = request[r].tmp_file]
            ELSE [@ EXCEPT !.pc = "finally",
                           !.result = Raise(Exception(error))]]
    /\ UNCHANGED <<runnerVars, call, files>>

\* static_analysis, lines 150-156: the analysis step.  What it raises leaves
\* the try block; an exception it returns is raised as HTTPException 500;
\* a report is returned.
static_analysis_run(r) ==
    /\ request[r].handler = "static_analysis"
    /\ request[r].pc = "analysis"
    /\ \E runs \in ToolRuns, returned \in BOOLEAN :
        LET static_report == static_analyzer_run_analysis(runs) IN
        request' = [request EXCEPT ![r] =
            [@ EXCEPT !.pc = "finally",
                      !.result =
                        IF IsOk(static_report) THEN static_report
                        ELSE IF returned THEN Raise(HTTPException(500))
                        ELSE Raise(Exception(static_report.raised))]]
    /\ UNCHANGED <<runnerVars, call, files>>

\* static_analysis, lines 158-160: the finally block removes the file that
\* tmp_file_path names, when it is bound and the file exists; then the
\* handler returns or raises what the try block did.
static_analysis_finally(r) ==
    /\ request[r].handler = "static_analysis"
    /\ request[r].pc = "finally"
    /\ files' = IF request[r].tmp_file_path # None
                THEN files \ {request[r].tmp_file_path.some}
                ELSE files
    /\ request' = [request EXCEPT ![r] =
            [@ EXCEPT !.pc = "done", !.response = request[r].result]]
    /\ UNCHANGED <<runnerVars, call>>

\* llm_analysis, lines 173-174: a body without contract_metadata or without
\* its token_address is answered 400.
llm_analysis_validate(r) ==
    /\ request[r].handler = "llm_analysis"
    /\ request[r].pc = "validate"
    /\ request' = [request EXCEPT ![r] =
            IF \/ "contract_metadata" \notin DOMAIN request[r].full_input_json
               \/ "token_address" \notin
                    DOMAIN request[r].full_input_json.contract_metadata
            THEN [@ EXCEPT !.pc = "done",
                           !.response = Raise(HTTPException(400))]
            ELSE [@ EXCEPT !.pc = "analysis"]]
    /\ UNCHANGED <<runnerVars, call, files>>

\* A contextual analysis that reports an error once a sandbox invocation of
\* the static analysis has failed.
llm_analysis_run_sharing_failures(r) ==
    /\ request[r].handler = "llm_analysis"
    /\ request[r].pc = "analysis"
    /\ LET llm_report ==
            IF \E i \in Invocations : exc[i] # NoException
            THEN run_analysis(request[r].api_key, [net |-> "ConnectionError"])
            ELSE run_analysis(request[r].api_key, request[r].remote)
       IN  request' = [request EXCEPT ![r] =
                [@ EXCEPT !.pc = "done", !.response = llm_report]]
    /\ UNCHANGED <<runnerVars, call, files>>

\* llm_analysis, lines 176-182: the report of llm_analyzer.run_analysis is
\* returned; what run_analysis raises leaves the handler.  (run_analysis
\* returns an LLMAnalysisResult, never an Exception, so the branch of line
\* 178 is not taken.)
llm_analysis_run(r) ==
    /\ request[r].handler = "llm_analysis"
    /\ request[r].pc = "analysis"
    /\ LET llm_report == run_analysis(request[r].api_key, request[r].remote)
       IN  request' = [request EXCEPT ![r] =
                [@ EXCEPT !.pc = "done",
                          !.response = IF IsOk(llm_report) THEN llm_report
                                       ELSE Raise(Exception(llm_report.raised))]]
    /\ UNCHANGED <<runnerVars, call, files>>

StaticRequestNext ==
    \E r \in Requests :
        \/ static_analysis_validate(r)
        \/ static_analysis_source(r)
        \/ static_analysis_create(r)
        \/ static_analysis_write(r)
        \/ static_analysis_run(r)
        \/ static_analysis_finally(r)

LlmRequestNext ==
    \E r \in Requests :
        \/ llm_analysis_validate(r)
        \/ llm_analysis_run(r)

RequestNext == StaticRequestNext \/ LlmRequestNext

NoRequests ==
    /\ request = [r \in Requests |-> Idle]
    /\ files = {}

Next == RunnerNext \/ AnalyzerNext \/ RequestNext

\* The runner alone, no analyzer being called.
RunnerOnlyInit ==
    /\ RunnerInit
    /\ call = NoCall
    /\ NoRequests

\* One call of a normalizer or of the contextual analyzer, the runner idle.
AnalyzerInit ==
    /\ RunnerInit
    /\ dockerImages = Images
    /\ call \in PendingCalls
    /\ NoRequests

\* Concurrent requests to the two endpoints, the runner idle.
RequestInit ==
    /\ RunnerInit
    /\ dockerImages = Images
    /\ call = NoCall
    /\ request \in [Requests -> StaticRequests \cup LlmRequests]
    /\ files = {}

\* One accepted request to /llm-analysis while the sandbox invocations of a
\* static analysis run.
IsolationInit ==
    /\ RunnerInit
    /\ call = NoCall
    /\ \E first \in LlmRequests :
        /\ first.api_key
        /\ first.full_input_json = AcceptedInputJson
        /\ request = [r \in Requests |-> IF r = 1 THEN first ELSE Idle]
    /\ files = {}

Init ==
    /\ RunnerInit
    /\ call \in {NoCall} \cup PendingCalls
    /\ request \in [Requests -> {Idle} \cup StaticRequests \cup LlmRequests]
    /\ files = {}

Spec == Init /\ [][Next]_vars
SpecRunner == RunnerOnlyInit /\ [][RunnerNext]_vars
SpecAnalyzers == AnalyzerInit /\ [][AnalyzerNext]_vars
SpecRequests == RequestInit /\ [][RequestNext]_vars
IsolationNext == RunnerNext \/ LlmRequestNext
SpecIsolation == IsolationInit /\ [][IsolationNext]_vars

(***************************************************************************)
(*                     Properties                                          *)
(***************************************************************************)
Returned(f) == call.fn = f /\ call.out # Pending
ParseReturned ==
    Returned("parse_slither_output") \/ Returned("parse_mythril_output")
ToolName == IF call.fn = "parse_slither_output" THEN "Slither" ELSE "Mythril"

\* C1: once an invocation of run_tool_in_docker has returned, on whatever
\* exit path, no container created by that invocation still exists.
C1_NoContainerLeftBehind ==
    \A i \in Invocations : rpc[i] = "done" => ~Exists(i)

\* C2: for a stdout that is not JSON (the empty string included) and any
\* stderr, the normalizer returns a report with its tool's name, the
\* parse-failure message as error and no findings; it raises nothing.
C2_ParseFailureBecomesErrorReport ==
    (ParseReturned /\ ~call.stdout.json) =>
        /\ IsOk(call.out)
        /\ call.out.ok.tool_name = ToolName
        /\ call.out.ok.error = Some(ParseFailureMsg(call.stderr))
        /\ call.out.ok.issues = <<>>

\* C3: every report a normalizer or the contextual analyzer returns has an
\* empty finding list when its error field is not null.
C3_ErrorImpliesNoFindings ==
    /\ (ParseReturned /\ IsOk(call.out)) =>
            (call.out.ok.error # None => call.out.ok.issues = <<>>)
    /\ (Returned("run_analysis") /\ IsOk(call.out)) =>
            (call.out.ok.error # None => call.out.ok.findings = <<>>)

\* The report object of a response, when the response carries one.
HasReportText(r) ==
    /\ "body" \in DOMAIN r
    /\ r.status < 400
    /\ r.body.json
    /\ Get(r.body.value, "candidates", <<>>) # <<>>
    /\ "content" \in DOMAIN r.body.value.candidates[1]
    /\ "parts" \in DOMAIN r.body.value.candidates[1].content
    /\ r.body.value.candidates[1].content.parts # <<>>
    /\ "text" \in DOMAIN r.body.value.candidates[1].content.parts[1]
ReportTextOf(r) == r.body.value.candidates[1].content.parts[1].text
HasReportData(r) == HasReportText(r) /\ ReportTextOf(r).json
ReportDataOf(r) == ReportTextOf(r).value

ConfidenceInRange(c) == c >= 0 /\ c <= 10

\* The schema of the report: the three required fields, with strings where
\* the schema asks for strings, and findings that have their four fields and
\* a confidence in [0.0, 1.0].
ConformsToSchema(d) ==
    /\ {"executive_summary", "overall_risk_grading", "findings"} \subseteq DOMAIN d
    /\ IsStr(d.executive_summary)
    /\ IsStr(d.overall_risk_grading)
    /\ \A k \in 1..Len(d.findings) :
        /\ {"severity", "category", "description", "confidence"}
                \subseteq DOMAIN d.findings[k]
        /\ ConfidenceInRange(d.findings[k].confidence)

\* The remote call failed: a timeout, a connection failure, a non-success
\* status, a body that is not JSON, no candidates or content, a report text
\* that is not JSON, or a report that does not conform to the schema.
RemoteCallFailed(r) ==
    \/ ~HasReportData(r)
    \/ ~ConformsToSchema(ReportDataOf(r))

IsErrorReport(out) ==
    /\ IsOk(out)
    /\ out.ok.error # None
    /\ out.ok.findings = <<>>

\* C4: whatever the outcome of the remote call, run_analysis raises nothing,
\* and on every failed outcome it returns a report with error set and no
\* findings.
C4_RemoteFailureBecomesErrorReport ==
    Returned("run_analysis") =>
        /\ IsOk(call.out)
        /\ (call.api_key /\ RemoteCallFailed(call.response))
                => IsErrorReport(call.out)

\* C4, witnessed: a call that timed out has returned its error report.
C4_Witness ==
    /\ Returned("run_analysis")
    /\ call.api_key
    /\ call.response = [net |-> "Timeout"]
    /\ IsErrorReport(call.out)

\* A report without the findings field, or with a finding whose confidence
\* lies outside [0.0, 1.0].
FindingsMissingOrOutOfRange(d) ==
    \/ "findings" \notin DOMAIN d
    \/ \E k \in 1..Len(d.findings) :
        /\ "confidence" \in DOMAIN d.findings[k]
        /\ ~ConfidenceInRange(d.findings[k].confidence)

\* C5: a response without findings, or with a confidence outside [0.0, 1.0],
\* is returned as an error report without findings; so every finding of a
\* report returned with error unset has its confidence in [0.0, 1.0].
C5_ConfidenceValidated ==
    Returned("run_analysis") =>
        /\ (/\ call.api_key
            /\ HasReportData(call.response)
            /\ FindingsMissingOrOutOfRange(ReportDataOf(call.response)))
                => IsErrorReport(call.out)
        /\ (IsOk(call.out) /\ call.out.ok.error = None) =>
                \A k \in 1..Len(call.out.ok.findings) :
                    ConfidenceInRange(call.out.ok.findings[k].confidence)

\* C5, witnessed: a report that is well formed but for a confidence of 1.5
\* has been returned as an error report.
C5_Witness ==
    /\ Returned("run_analysis")
    /\ call.api_key
    /\ HasReportData(call.response)
    /\ {"executive_summary", "overall_risk_grading", "findings"}
            \subseteq DOMAIN ReportDataOf(call.response)
    /\ IsStr(ReportDataOf(call.response).executive_summary)
    /\ ReportDataOf(call.response).findings = <<Finding(5), Finding(15)>>
    /\ IsErrorReport(call.out)

\* The raw entries of a successful tool output, in the tool's order.
RawEntries ==
    IF call.fn = "parse_slither_output"
    THEN Get(Get(call.stdout.value, "results", EmptyDict), "detectors", <<>>)
    ELSE Get(call.stdout.value, "issues", <<>>)
RawSeverityKey == IF call.fn = "parse_slither_output" THEN "impact" ELSE "severity"
RawVocabulary ==
    IF call.fn = "parse_slither_output" THEN SlitherImpacts ELSE MythrilSeverities
SuccessfulOutput ==
    /\ ParseReturned
    /\ call.stdout.json
    /\ Get(call.stdout.value, "success", FALSE)

\* C6: for every raw severity a tool can emit, the severity of the finding
\* the normalizer produces is one of Informational, Low, Medium, High,
\* Critical.
C6_SeverityIsCanonical ==
    (SuccessfulOutput /\ IsOk(call.out)) =>
        \A k \in 1..Len(RawEntries) :
            (/\ RawSeverityKey \in DOMAIN RawEntries[k]
             /\ IsStr(RawEntries[k][RawSeverityKey])
             /\ RawEntries[k][RawSeverityKey].str \in RawVocabulary)
                => call.out.ok.issues[k].severity \in CanonicalSeverities

\* C7: when the container has not finished within the timeout, it is removed
\* and the runner returns the empty stdout with the text of the timeout
\* error, not the output the container had written so far.
C7_TimeoutRemovesAndReturnsError ==
    \A i \in Invocations :
        (rpc[i] = "done" /\ exc[i] = ReadTimeout) =>
            /\ cstate[i] = "removed"
            /\ ret[i] = <<<<>>, <<"Read timed out.">>>>

\* C7, witnessed: an invocation timed out on a container that had written
\* output, and has returned.
C7_Witness ==
    \E i \in Invocations :
        /\ rpc[i] = "done"
        /\ exc[i] = ReadTimeout
        /\ cout[i] # <<>>

\* C8: when the image does not exist no container is created, and what the
\* runner returns then is returned on no other exit path: not on a timeout,
\* not on another failure, not for a tool run.
C8_ImageNotFoundIsDistinct ==
    \A i \in Invocations :
        /\ (rpc[i] = "done" /\ exc[i] = ImageNotFound) => cstate[i] = "none"
        /\ (rpc[i] = "done" /\ exc[i] # ImageNotFound) =>
                \A img \in Images : ret[i] # <<<<>>, ImageNotFoundMsg(img)>>

\* C9: when the tool's JSON parses but its success flag is false or absent,
\* the normalizer returns a report without findings whose error is not the
\* parse-failure message and holds the tool's error text and the stderr.
C9_ToolFailureBecomesErrorReport ==
    (ParseReturned /\ call.stdout.json
        /\ ~Get(call.stdout.value, "success", FALSE)) =>
        /\ IsOk(call.out)
        /\ call.out.ok.issues = <<>>
        /\ call.out.ok.error # None
        /\ call.out.ok.error # Some(ParseFailureMsg(call.stderr))
        /\ \E k \in 1..Len(call.out.ok.error.some) :
                call.out.ok.error.some[k] = call.stderr
        /\ "error" \in DOMAIN call.stdout.value =>
                \E k \in 1..Len(call.out.ok.error.some) :
                    call.out.ok.error.some[k] = call.stdout.value.error

\* t is s with its first character upper-cased and the others lower-cased.
IsCapitalized(t, s) ==
    /\ Len(t) = Len(s)
    /\ \A k \in 1..Len(s) :
        /\ ToLower(t[k]) = ToLower(s[k])
        /\ IF k = 1 THEN t[k] = ToUpper(t[k]) ELSE t[k] = ToLower(t[k])

\* t is s without its leading and trailing whitespace.
IsStripped(t, s) ==
    /\ t = <<>> \/ (t[1] \notin Whitespace /\ t[Len(t)] \notin Whitespace)
    /\ \E a \in 0..Len(s) :
        /\ a + Len(t) <= Len(s)
        /\ t = SubSeq(s, a + 1, a + Len(t))
        /\ \A k \in 1..Len(s) :
                (k <= a \/ k > a + Len(t)) => s[k] \in Whitespace

\* The first line of the first affected element of a detector entry.
HasFirstLine(d) ==
    /\ "elements" \in DOMAIN d
    /\ d.elements # <<>>
    /\ "source_mapping" \in DOMAIN d.elements[1]
    /\ "lines" \in DOMAIN d.elements[1].source_mapping
    /\ d.elements[1].source_mapping.lines # <<>>
FirstLine(d) == d.elements[1].source_mapping.lines[1]

SlitherReported ==
    /\ SuccessfulOutput
    /\ call.fn = "parse_slither_output"
    /\ IsOk(call.out)

\* C10 as stated: one finding per detector entry, in order, with check equal
\* to the entry's check, severity equal to its impact, message equal to its
\* description and location equal to the first line of the first element.
C10_FindingEqualsEntry ==
    SlitherReported =>
        /\ Len(call.out.ok.issues) = Len(RawEntries)
        /\ \A k \in 1..Len(RawEntries) :
            LET d == RawEntries[k]
                f == call.out.ok.issues[k]
            IN  /\ "check" \in DOMAIN d => f.check = d.check
                /\ "impact" \in DOMAIN d => f.severity = d.impact.str
                /\ "description" \in DOMAIN d => f.message = d.description
                /\ HasFirstLine(d) => f.line = FirstLine(d)

\* C10, amended: one finding per detector entry, in order, with check equal
\* to the entry's check, severity equal to its impact capitalized, message
\* equal to its description without leading and trailing whitespace, and
\* location equal to the first line of the first element.
C10_FindingNormalizesEntry ==
    SlitherReported =>
        /\ Len(call.out.ok.issues) = Len(RawEntries)
        /\ \A k \in 1..Len(RawEntries) :
            LET d == RawEntries[k]
                f == call.out.ok.issues[k]
            IN  /\ "check" \in DOMAIN d => f.check = d.check
                /\ "impact" \in DOMAIN d => IsCapitalized(f.severity, d.impact.str)
                /\ "description" \in DOMAIN d => IsStripped(f.message, d.description)
                /\ HasFirstLine(d) => f.line = FirstLine(d)

\* C10, witnessed: a report of two findings, the first from an entry of two
\* elements and several lines whose description ends in a newline.
C10_Witness ==
    /\ SlitherReported
    /\ Len(call.out.ok.issues) = 2
    /\ HasFirstLine(RawEntries[1])
    /\ "description" \in DOMAIN RawEntries[1]
    /\ Len(RawEntries[1].elements) = 2
    /\ Len(RawEntries[1].elements[1].source_mapping.lines) = 2
    /\ call.out.ok.issues[1].message # RawEntries[1].description
    /\ call.out.ok.issues[1].line = 7

\* The subscripts [0] of an entry's location find an element: its elements
\* list, when present, is not empty, and the lines list of its first element,
\* when present, is not empty.
LocationSubscriptable(d) ==
    /\ "elements" \in DOMAIN d => d.elements # <<>>
    /\ ("elements" \in DOMAIN d
            /\ "source_mapping" \in DOMAIN d.elements[1]
            /\ "lines" \in DOMAIN d.elements[1].source_mapping)
        => d.elements[1].source_mapping.lines # <<>>

\* The raw severity of an entry is outside the tool's vocabulary: the field
\* is missing, null, or a string the vocabulary does not hold.
SeverityOutsideVocabulary(e) ==
    \/ RawSeverityKey \notin DOMAIN e
    \/ ~IsStr(e[RawSeverityKey])
    \/ e[RawSeverityKey].str \notin RawVocabulary

\* C13: a raw severity outside the tool's vocabulary (an unrecognized
\* string, null, or a missing field) does not fail the normalization run:
\* the normalizer returns its report, and the severity of the affected
\* finding is "Unknown".
C13_UnknownSeverityFallsBack ==
    (/\ SuccessfulOutput
     /\ call.fn = "parse_slither_output" =>
            \A k \in 1..Len(RawEntries) : LocationSubscriptable(RawEntries[k]))
        => /\ IsOk(call.out)
           /\ \A k \in 1..Len(RawEntries) :
                SeverityOutsideVocabulary(RawEntries[k])
                    => call.out.ok.issues[k].severity = W_UNKNOWN

\* A finding without location data: a Slither entry without a first line, a
\* Mythril issue without lineno.
LacksLocation(e) ==
    IF call.fn = "parse_slither_output"
    THEN ~HasFirstLine(e)
    ELSE "lineno" \notin DOMAIN e

\* C15: a finding without location data does not fail normalization: for a
\* Slither entry whose elements list is missing or empty, or whose first
\* element has no source_mapping or an empty lines list, and for a Mythril
\* issue without lineno, the normalizer raises nothing and returns a report
\* in which that finding has the line -1.
C15_MissingLocationIsSentinel ==
    (/\ SuccessfulOutput
     /\ \A k \in 1..Len(RawEntries) :
            RawSeverityKey \in DOMAIN RawEntries[k]
                => IsStr(RawEntries[k][RawSeverityKey]))
        => /\ IsOk(call.out)
           /\ \A k \in 1..Len(RawEntries) :
                LacksLocation(RawEntries[k]) => call.out.ok.issues[k].line = -1

\* A handler has finished: it returned a report or ended with an exception.
Finished(r) == request[r].pc = "done"
IsStatic(r) == request[r].handler = "static_analysis"
IsLlm(r) == request[r].handler = "llm_analysis"

\* C14: when a static_analysis handler that created its temporary file has
\* finished, by returning the report or by an exception, the file no longer
\* exists; and the only file a request removes is the one it created: the
\* path its finally block removes is never another file's.
C14_TempFileRemoved ==
    \A r \in Requests : IsStatic(r) =>
        /\ (Finished(r) /\ request[r].tmp_file # None)
                => request[r].tmp_file.some \notin files
        /\ request[r].tmp_file_path # None
                => request[r].tmp_file_path = request[r].tmp_file

\* The request was accepted, its source was obtained, and its analyzer ran:
\* a static_analysis handler reached the analysis step with its source
\* written, an llm_analysis handler passed the check of its body.
AnalyzerRan(r) ==
    /\ Finished(r)
    /\ \/ IsStatic(r) /\ request[r].tmp_file_path # None
       \/ IsLlm(r) /\ request[r].full_input_json = AcceptedInputJson

RemoteCallSucceeded(remote) ==
    /\ ~RemoteCallFailed(remote)
    /\ Get(ReportDataOf(remote), "error", JNull) = JNull

\* The report of a contextual analysis that runs alone on a successful
\* remote call: the fields of the report the remote service sent.
ReportAlone(remote) ==
    LET d == ReportDataOf(remote) IN
    [executive_summary |-> d.executive_summary.str,
     overall_risk_grading |-> d.overall_risk_grading.str,
     findings |-> [k \in 1..Len(d.findings) |->
                    [severity |-> d.findings[k].severity.str,
                     category |-> d.findings[k].category.str,
                     description |-> d.findings[k].description.str,
                     confidence |-> d.findings[k].confidence]],
     error |-> None]

\* Every sandbox invocation that has returned has failed.
EverySandboxInvocationFailed ==
    \A i \in Invocations : rpc[i] = "done" => exc[i] # NoException

\* C11: whatever the sandbox invocations of a static analysis do meanwhile,
\* all of them failing, an accepted contextual-analysis request whose own
\* remote call succeeds returns the report it returns when it runs alone,
\* with its error field unset.
C11_ContextualReportIsolated ==
    \A r \in Requests :
        (/\ IsLlm(r) /\ Finished(r)
         /\ request[r].full_input_json = AcceptedInputJson
         /\ request[r].api_key
         /\ RemoteCallSucceeded(request[r].remote)
         /\ EverySandboxInvocationFailed)
            => /\ request[r].response = Ok(ReportAlone(request[r].remote))
               /\ request[r].response.ok.error = None

\* C11, witnessed: every sandbox invocation has returned with a failure, one
\* of them a timeout, and the contextual analysis has returned its report
\* with a finding.
C11_Witness ==
    /\ \A i \in Invocations : rpc[i] = "done" /\ exc[i] # NoException
    /\ \E i \in Invocations : exc[i] = ReadTimeout
    /\ \E r \in Requests :
        /\ IsLlm(r) /\ Finished(r)
        /\ RemoteCallSucceeded(request[r].remote)
        /\ IsOk(request[r].response)
        /\ request[r].response.ok.error = None
        /\ request[r].response.ok.findings # <<>>
====
